---- MODULE Spec2Model ----
(***************************************************************************)
(* StreamForge robust auto-transcoder (src/robust-transcoder.py).          *)
(*                                                                         *)
(* Several RobustTranscoder supervisor processes run monitor_loop on one   *)
(* host.  They share the OS process table (the ffmpeg workers), the lock   *)
(* directory (one <stream>.lock file per stream, plus a <stream>.lock.pid  *)
(* sidecar) and the advisory flock state of the lock files' inodes.        *)
(***************************************************************************)
EXTENDS Naturals, Sequences, FiniteSets

(* ------------------------------------------------------------------ *)
(* Bounds of the model                                                  *)
(* ------------------------------------------------------------------ *)

\* monitor_loop iterations one supervisor performs, when the supervisors run
\* one after the other and when they run side by side
MaxCycles == 2
MaxCyclesOverlap == 1

\* environment faults in one run: launch failures, terminate timeouts,
\* workers exiting on their own, supervisors killed
MaxFaults == 1

\* size of the OS process table left for ffmpeg workers
MaxProcs == 2

(* ------------------------------------------------------------------ *)
(* Names, strings and the substring test                                *)
(* ------------------------------------------------------------------ *)

\* a stream name "stream<suffix>", one element per character
StreamName(suffix) ==
    <<"s", "t", "r", "e", "a", "m">> \o suffix

stream1 == StreamName(<<"1">>)
stream2 == StreamName(<<"2">>)
stream3 == StreamName(<<"3">>)
stream4 == StreamName(<<"4">>)
stream5 == StreamName(<<"5">>)
stream10 == StreamName(<<"1", "0">>)

\* the names the monitor loop scans for and stops at exit, in list order
HardcodedStreams ==
    <<stream1, stream2, stream3, stream4, stream5>>

\* the names publishers use in this model: one of the list, and one outside
\* it that begins with a name of the list
Published ==
    {stream1, stream10}

AllStreams ==
    Published \cup {stream1, stream2, stream3, stream4, stream5}

\* the supervisor processes, and the process id of each as a digit string
Supervisors ==
    {"sup1", "sup2"}

getpid(p) ==
    IF p = "sup1" THEN <<7>> ELSE <<4, 2>>

Range(seq) ==
    {seq[i] : i \in 1..Len(seq)}

\* Python's  needle in hay  on strings
Contains(hay, needle) ==
    \E i \in 0..(Len(hay) - Len(needle)) :
        SubSeq(hay, i + 1, i + Len(needle)) = needle

\* f"rtmp://localhost:1935/live/{stream_name}"
IngestUrl(s) ==
    <<"rtmp://localhost:1935/live/">> \o s

\* ' '.join(cmd) of the ffmpeg command start_transcoder builds
Cmdline(s) ==
    <<"ffmpeg -y -i ">> \o IngestUrl(s)
        \o <<" -hide_banner ... -hls_segment_filename /tmp/hls_shared/">> \o s
        \o <<"/%v/segment%03d.ts -var_stream_map ... /tmp/hls_shared/">> \o s
        \o <<"/%v/playlist.m3u8">>

(* ------------------------------------------------------------------ *)
(* State                                                                *)
(* ------------------------------------------------------------------ *)

VARIABLES
    sup,        \* per supervisor: position in monitor_loop and its locals
    workers,    \* ffmpeg processes in the OS process table
    lockFile,   \* per stream: the <stream>.lock directory entry
    sidecar,    \* per stream: the <stream>.lock.pid file
    faults,     \* environment faults so far
    overlap,    \* whether a supervisor is started while another one is running
    endless,    \* whether monitor_loop is followed without a limit of iterations
    defunct,    \* the exited ffmpeg still in the process table, if there is one
    auto,       \* the AutoTranscoder process: position in monitor_loop, its fields
    obs         \* per supervisor: record of its calls (observation only)

vars == <<sup, workers, lockFile, sidecar, faults, overlap, endless, defunct, auto, obs>>

NoFile == [ino |-> 0, content |-> <<>>]
NoFd == [stream |-> <<>>, ino |-> 0, locked |-> FALSE]
NoPid == 0

\* no exited ffmpeg is left in the process table
NoDefunct == [pid |-> NoPid, parent |-> "none"]

\* a supervisor that is not inside a start_transcoder call
Idle(pcv) ==
    [pc |-> pcv, current_streams |-> {}, active_transcoders |-> {},
     new_streams |-> {}, stopped_streams |-> {}, glob |-> {},
     stream_name |-> <<>>, lock_fd |-> NoFd, process |-> NoPid,
     ret |-> "None", interrupted |-> FALSE, exit_list |-> <<>>, cycle |-> 0]

NoCall == [stream |-> <<>>, reclaimed |-> FALSE, free |-> FALSE, none |-> FALSE,
           on_disk |-> FALSE, res |-> "None", found |-> 0]
NoStop == [stream |-> <<>>, had_worker |-> FALSE, res |-> "None",
           signalled |-> FALSE, removed |-> FALSE]

\* the fields and locals of an AutoTranscoder at a point of monitor_loop;
\* active_streams maps a stream to the pid of its Popen handle, NoPid when
\* the stream is no key of it
AutoIdle(pcv) ==
    [pc |-> pcv, active_streams |-> [s \in Published |-> NoPid],
     current_streams |-> {}, new_streams |-> {}, stopped_streams |-> {},
     interrupted |-> FALSE, cycle |-> 0]

\* no AutoTranscoder has been started
NoAuto == AutoIdle("off")

NoResponse == [kind |-> "none", doc |-> {}]

NoObs ==
    [call |-> NoCall, log |-> <<>>, last_stop |-> NoStop, cycle_ok |-> FALSE,
     stale_seen |-> {}, malformed_seen |-> {}, stop_issued |-> {}, left_running |-> {},
     left_unsignalled |-> {}, poll_failed |-> FALSE, response |-> NoResponse,
     toStart |-> {}, toStop |-> {}, starts |-> {}, stops |-> {}, failed |-> {}]

\* nothing runs yet and the lock directory is empty
Fresh ==
    /\ sup = [p \in Supervisors |-> Idle("off")]
    /\ workers = {}
    /\ lockFile = [s \in AllStreams |-> NoFile]
    /\ sidecar = [s \in AllStreams |-> NoPid]
    /\ faults = 0
    /\ defunct = NoDefunct
    /\ obs = [p \in Supervisors |-> NoObs]

\* the supervisor is restarted only after the previous instance has ended
Init ==
    /\ Fresh
    /\ auto = NoAuto
    /\ overlap = FALSE
    /\ endless = FALSE

\* a second supervisor may be started while the first one runs
InitOverlap ==
    /\ Fresh
    /\ auto = NoAuto
    /\ overlap = TRUE
    /\ endless = FALSE

\* files an earlier run or another program can have left in the lock
\* directory: an empty one, one that holds a character that is no digit, one
\* that holds the pid of a process that is gone
Leftovers ==
    {NoFile} \cup {[ino |-> 1, content |-> c] : c \in {<<>>, <<10>>, <<9>>}}

\* the supervisor is started on a lock directory with files left in it
InitLeftover ==
    /\ sup = [p \in Supervisors |-> Idle("off")]
    /\ workers = {}
    /\ lockFile \in [AllStreams -> Leftovers]
    /\ \A s \in AllStreams \ Published : lockFile[s] = NoFile
    /\ sidecar = [s \in AllStreams |-> NoPid]
    /\ faults = 0
    /\ defunct = NoDefunct
    /\ auto = NoAuto
    /\ obs = [p \in Supervisors |-> NoObs]
    /\ overlap = FALSE
    /\ endless = FALSE

\* one supervisor at a time, and  while True  goes on for ever
InitLive ==
    /\ Fresh
    /\ auto = NoAuto
    /\ overlap = FALSE
    /\ endless = TRUE

(* ------------------------------------------------------------------ *)
(* Process Registry                                                     *)
(* ------------------------------------------------------------------ *)

\* the test  stream_url in cmdline  for the command line of a worker of t
\* and the ingest URL of s, worked out once for the names of the model
MatchTable ==
    [t \in Published |-> [s \in AllStreams |-> Contains(Cmdline(t), IngestUrl(s))]]

\* proc.info['name'] == 'ffmpeg' and the ingest URL of s in the command line
Matches(w, s) ==
    IF s \in AllStreams /\ w.stream \in Published THEN MatchTable[w.stream][s]
    ELSE Contains(Cmdline(w.stream), IngestUrl(s))

\* the processes a scan gets to: process_iter yields them by ascending pid,
\* and for an exited ffmpeg that its parent has not waited for
\* info['cmdline'] is None, so that ' '.join raises TypeError, which the
\* handler of Exception around the loop turns into the end of the scan
Scanned ==
    {w \in workers : defunct = NoDefunct \/ w.pid < defunct.pid}

\* the processes is_stream_transcoding / stop_transcoder select for s
Matching(s) ==
    {w \in Scanned : Matches(w, s)}

is_stream_transcoding(s) ==
    Matching(s) # {}

\* the streams that really have a live worker
LiveStreams ==
    {w.stream : w \in workers}

FreePids ==
    {n \in 1..MaxProcs : n # defunct.pid /\ \A w \in workers : w.pid # n}

Min(S) ==
    CHOOSE n \in S : \A m \in S : n <= m

\* int(text) returns: the text is one digit or more (a character is the
\* number of the digit it shows, and 10 or more when it shows none)
IsInt(text) ==
    text # <<>> /\ \A i \in 1..Len(text) : text[i] \in 0..9

\* psutil.pid_exists(int(text)) for the digit string text
pid_exists(text) ==
    \/ \E q \in Supervisors :
          /\ sup[q].pc \notin {"off", "dead", "exited"}
          /\ getpid(q) = text
    \/ \E w \in workers : <<w.pid>> = text
    \/ defunct # NoDefunct /\ <<defunct.pid>> = text

(* ------------------------------------------------------------------ *)
(* Lock Manager                                                         *)
(* ------------------------------------------------------------------ *)

\* some process holds the flock of inode ino of stream s
FlockHeld(s, ino) ==
    \E q \in Supervisors :
        /\ sup[q].lock_fd.stream = s
        /\ sup[q].lock_fd.ino = ino
        /\ sup[q].lock_fd.locked

\* the supervisors holding an acquired lock for s
Holders(s) ==
    {q \in Supervisors : sup[q].lock_fd.stream = s /\ sup[q].lock_fd.locked}

\* an inode number no directory entry and no open descriptor of s refers to
FreshIno(s) ==
    Min({n \in 1..(Cardinality(Supervisors) + 1) :
            /\ lockFile[s].ino # n
            /\ \A q \in Supervisors :
                  ~(sup[q].lock_fd.stream = s /\ sup[q].lock_fd.ino = n)})

\* os.write at offset 0 of a descriptor opened at offset 0
WriteAtStart(content, text) ==
    text \o SubSeq(content, Len(text) + 1, Len(content))

\* the supervisors other than p have all terminated
OthersGone(p) ==
    \A q \in Supervisors \ {p} : sup[q].pc \in {"dead", "exited"}

Alive(p) ==
    sup[p].pc \notin {"off", "dead", "exited"}

\* the lock of s is free while its file is on disk and holds the pid of a
\* running supervisor
ReleasedOnDisk(s) ==
    /\ lockFile[s] # NoFile
    /\ Holders(s) = {}
    /\ \E q \in Supervisors : Alive(q) /\ lockFile[s].content = getpid(q)

\* where monitor_loop continues once a start or stop call has returned
Continue(r) ==
    IF r.interrupted THEN "shutdown"
    ELSE IF r.new_streams # {} THEN "start"
    ELSE IF r.stopped_streams # {} THEN "stop"
    ELSE "sleep"

\* no other supervisor is running beside p
Alone(p) ==
    \A q \in Supervisors \ {p} : ~Alive(q)

\* the last two start_transcoder calls of a supervisor
Logged(log, call) ==
    IF log = <<>> THEN <<call>> ELSE <<log[Len(log)], call>>

\* obs records the calls a supervisor makes while it is the only one running
Kept(p, rec, none) ==
    IF Alone(p) THEN rec ELSE none

(* ------------------------------------------------------------------ *)
(* monitor_loop: start of the process, stale-lock cleanup, poll, scan   *)
(* ------------------------------------------------------------------ *)

\* a loop that polls without the cleanup pass before it
Boot_NoCleanup(p) ==
    /\ sup[p].pc = "off"
    /\ overlap \/ \A q \in Supervisors : ~Alive(q)
    /\ p = "sup1" \/ sup["sup1"].pc # "off"
    /\ sup' = [sup EXCEPT ![p].pc = "poll"]
    /\ obs' = [q \in Supervisors |->
                 IF Alive(q) THEN [NoObs EXCEPT !.stop_issued = obs[q].stop_issued]
                 ELSE NoObs]
    /\ UNCHANGED <<workers, lockFile, sidecar, faults, overlap, endless, defunct, auto>>

\* __main__: RobustTranscoder() and monitor_loop()
Boot(p) ==
    /\ sup[p].pc = "off"
    /\ overlap \/ \A q \in Supervisors : ~Alive(q)
    /\ p = "sup1" \/ sup["sup1"].pc # "off"
    /\ sup' = [sup EXCEPT ![p].pc = "cleanup_glob"]
    /\ obs' = [q \in Supervisors |->
                 IF Alive(q) THEN [NoObs EXCEPT !.stop_issued = obs[q].stop_issued]
                 ELSE NoObs]
    /\ UNCHANGED <<workers, lockFile, sidecar, faults, overlap, endless, defunct, auto>>

\* cleanup_stale_locks: Path(lock_dir).glob("*.lock") lists the directory
CleanupGlob(p) ==
    /\ sup[p].pc = "cleanup_glob"
    /\ LET found == {s \in AllStreams : lockFile[s] # NoFile}
       IN /\ sup' = [sup EXCEPT ![p].glob = found,
                                ![p].pc = IF found = {} THEN "poll" ELSE "cleanup_file"]
          /\ obs' = [obs EXCEPT ![p].stale_seen =
                        IF ~overlap \/ OthersGone(p)
                        THEN {s \in found : IsInt(lockFile[s].content)
                                            /\ ~pid_exists(lockFile[s].content)}
                        ELSE {},
                                ![p].malformed_seen =
                        IF ~overlap \/ OthersGone(p)
                        THEN {s \in found : ~IsInt(lockFile[s].content)}
                        ELSE {}]
    /\ UNCHANGED <<workers, lockFile, sidecar, faults, overlap, endless, defunct, auto>>

\* the test without its negation
StaleOwner_Inverted(text) ==
    pid_exists(text)

\* if not psutil.pid_exists(pid)
StaleOwner(text) ==
    ~pid_exists(text)

\* the handler of ValueError doing nothing
MalformedLock_Kept(s) ==
    lockFile

\* except (ValueError, FileNotFoundError): lock_file.unlink()
MalformedLock(s) ==
    [lockFile EXCEPT ![s] = NoFile]

\* cleanup_stale_locks: the loop body for one listed lock file
CleanupFile(p) ==
    /\ sup[p].pc = "cleanup_file"
    /\ \E s \in sup[p].glob :
         LET rest == sup[p].glob \ {s}
             file == lockFile[s]
         IN IF file = NoFile
            THEN \* open() raises FileNotFoundError, the handler's unlink() raises
                 \* it again, and the outer handler ends the pass
                 /\ sup' = [sup EXCEPT ![p].glob = {}, ![p].pc = "poll"]
                 /\ UNCHANGED <<lockFile, sidecar>>
            ELSE /\ sup' = [sup EXCEPT ![p].glob = rest,
                                       ![p].pc = IF rest = {} THEN "poll" ELSE "cleanup_file"]
                 /\ IF ~IsInt(file.content)
                    THEN \* int() raises ValueError: the lock file alone is removed
                         /\ lockFile' = MalformedLock(s)
                         /\ UNCHANGED sidecar
                    ELSE IF StaleOwner(file.content)
                    THEN /\ lockFile' = [lockFile EXCEPT ![s] = NoFile]
                         /\ sidecar' = [sidecar EXCEPT ![s] = NoPid]
                    ELSE UNCHANGED <<lockFile, sidecar>>
    /\ UNCHANGED <<workers, faults, overlap, endless, defunct, auto, obs>>

\* stream.find("name") is None: the entry has no name element
NoName == <<>>

\* the <stream> entries a stats document can hold: the text of the name
\* element, if there is one, and whether the entry has a publishing element
Entries ==
    {[name |-> n, publishing |-> b] : n \in Published, b \in BOOLEAN}
        \cup {[name |-> NoName, publishing |-> TRUE]}

\* the stats documents: a live stream is listed once, and so is an entry
\* without a name
Documents ==
    {d \in SUBSET Entries : \A e \in d : \A f \in d : e.name = f.name => e = f}

\* what requests.get(nginx_stats_url, timeout=5) can lead to: a 200 response
\* with a document, a response with another status (with an empty body or
\* with a document all the same), a 200 response whose body does not parse,
\* a refused connection, a timeout
Responses ==
    {[kind |-> "ok", doc |-> d] : d \in Documents}
        \cup {[kind |-> "status", doc |-> d] :
                 d \in {{}, {e \in Entries : e.publishing}}}
        \cup {[kind |-> k, doc |-> {}] : k \in {"malformed", "refused", "timeout"}}

\* the publishing test left out
Publishing_NameOnly(doc) ==
    {e.name : e \in {x \in doc : x.name # NoName}}

\* the names of the entries with a name and a publishing element
Publishing(doc) ==
    {e.name : e \in {x \in doc : x.name # NoName /\ x.publishing}}

\* the status test left out
get_active_streams_AnyStatus(resp) ==
    Publishing(resp.doc)

\* get_active_streams_from_nginx: [] for a status other than 200 and for
\* every exception (transport, timeout, parse), the names otherwise
get_active_streams_KeepOnError(resp) ==
    IF resp.kind = "ok" THEN Publishing(resp.doc) ELSE Published

get_active_streams_from_nginx(resp) ==
    IF resp.kind = "ok" THEN Publishing(resp.doc) ELSE {}

\* new_streams = current_streams - active_transcoders
NewStreams(current, active) ==
    current \ active

\* the difference with its operands exchanged
StoppedStreams_Swapped(current, active) ==
    current \ active

\* stopped_streams = active_transcoders - current_streams
StoppedStreams(current, active) ==
    active \ current

\* monitor_loop: get_active_streams_from_nginx(), the scan of the fixed
\* list of names, and the two set differences
PollScan(p) ==
    /\ sup[p].pc = "poll"
    /\ \E resp \in Responses :
         LET polled == get_active_streams_from_nginx(resp)
             active == {s \in Range(HardcodedStreams) : is_stream_transcoding(s)}
             r == [sup[p] EXCEPT !.current_streams = polled,
                                 !.active_transcoders = active,
                                 !.new_streams = NewStreams(polled, active),
                                 !.stopped_streams = StoppedStreams(polled, active)]
         IN /\ sup' = [sup EXCEPT ![p] = [r EXCEPT !.pc = Continue(r)]]
            /\ obs' = [obs EXCEPT ![p].cycle_ok = Alone(p),
                                  ![p].malformed_seen = {},
                                  ![p].poll_failed = Kept(p, resp.kind # "ok", FALSE),
                                  ![p].response = IF sup[p].cycle = 0
                                                  THEN Kept(p, resp, NoResponse)
                                                  ELSE NoResponse,
                                  ![p].toStart = Kept(p, r.new_streams, {}),
                                  ![p].toStop = Kept(p, r.stopped_streams, {}),
                                  ![p].starts = {},
                                  ![p].stops = {},
                                  ![p].failed = {}]
    /\ UNCHANGED <<workers, lockFile, sidecar, faults, overlap, endless, defunct, auto>>

(* ------------------------------------------------------------------ *)
(* start_transcoder                                                     *)
(* ------------------------------------------------------------------ *)

\* the record of a start_transcoder call that returns res
Returned(call, res, procs) ==
    [call EXCEPT !.res = res,
                 !.found = Cardinality({w \in procs : Matches(w, call.stream)})]

ObsReturn(p, call, res, procs) ==
    [obs EXCEPT ![p].log = Kept(p, Logged(@, Returned(call, res, procs)), <<>>),
                ![p].call = NoCall,
                ![p].cycle_ok = @ /\ res \notin {"LockBusy", "LaunchFailed"},
                ![p].failed = IF res = "LaunchFailed"
                              THEN Kept(p, @ \cup {call.stream}, {}) ELSE @]

\* the exception of a failed launch going on to monitor_loop, whose handler
\* gives up the rest of the cycle
Leave_Unhandled(r) ==
    [r EXCEPT !.stream_name = <<>>, !.lock_fd = NoFd, !.process = NoPid,
              !.ret = "None",
              !.new_streams = IF r.ret = "LaunchFailed" THEN {} ELSE @,
              !.stopped_streams = IF r.ret = "LaunchFailed" THEN {} ELSE @]

\* a return that leaves the descriptor open and locked
Leave_KeepFd(r) ==
    [r EXCEPT !.stream_name = <<>>, !.process = NoPid, !.ret = "None"]

\* the call's locals are gone once it has returned
Leave(r) ==
    [r EXCEPT !.stream_name = <<>>, !.lock_fd = NoFd, !.process = NoPid,
              !.ret = "None"]

\* monitor_loop takes the next stream of new_streams and start_transcoder
\* scans the process table for it
StartCheck(p) ==
    /\ sup[p].pc = "start"
    /\ \E s \in sup[p].new_streams :
         LET r == [sup[p] EXCEPT !.new_streams = @ \ {s}]
             call == [stream |-> s, reclaimed |-> s \in obs[p].stale_seen,
                      free |-> s \notin LiveStreams /\ Holders(s) = {},
                      none |-> workers = {}, on_disk |-> ReleasedOnDisk(s),
                      res |-> "Pending", found |-> 0]
         IN IF is_stream_transcoding(s)
            THEN /\ sup' = [sup EXCEPT ![p] = [r EXCEPT !.pc = Continue(r)]]
                 /\ obs' = [ObsReturn(p, call, "AlreadyRunning", workers)
                               EXCEPT ![p].starts = Kept(p, @ \cup {s}, {}),
                                      ![p].response = NoResponse]
            ELSE /\ sup' = [sup EXCEPT ![p] = [r EXCEPT !.pc = "acq_open",
                                                        !.stream_name = s]]
                 /\ obs' = [obs EXCEPT ![p].call = Kept(p, call, NoCall),
                                       ![p].starts = Kept(p, @ \cup {s}, {}),
                                       ![p].response = NoResponse]
    /\ UNCHANGED <<workers, lockFile, sidecar, faults, overlap, endless, defunct, auto>>

\* a lock taken by creating its file: an existing file means busy
AcquireOpen_Excl(p) ==
    /\ sup[p].pc = "acq_open"
    /\ LET s == sup[p].stream_name
           r == Leave(sup[p])
       IN IF lockFile[s] # NoFile
          THEN /\ sup' = [sup EXCEPT ![p] = [r EXCEPT !.pc = Continue(r)]]
               /\ obs' = ObsReturn(p, obs[p].call, "LockBusy", workers)
               /\ UNCHANGED lockFile
          ELSE /\ lockFile' = [lockFile EXCEPT ![s] = [ino |-> FreshIno(s),
                                                       content |-> <<>>]]
               /\ sup' = [sup EXCEPT ![p].pc = "acq_flock",
                                     ![p].lock_fd = [stream |-> s, ino |-> FreshIno(s),
                                                     locked |-> FALSE]]
               /\ UNCHANGED obs
    /\ UNCHANGED <<workers, sidecar, faults, overlap, endless, defunct, auto>>

\* acquire_stream_lock: os.open(lock_file, O_CREAT | O_WRONLY | O_TRUNC)
AcquireOpen(p) ==
    /\ sup[p].pc = "acq_open"
    /\ LET s == sup[p].stream_name
           ino == IF lockFile[s] = NoFile THEN FreshIno(s) ELSE lockFile[s].ino
       IN /\ lockFile' = [lockFile EXCEPT ![s] = [ino |-> ino, content |-> <<>>]]
          /\ sup' = [sup EXCEPT ![p].pc = "acq_flock",
                                ![p].lock_fd = [stream |-> s, ino |-> ino,
                                                locked |-> FALSE]]
    /\ UNCHANGED <<workers, sidecar, faults, overlap, endless, defunct, auto, obs>>

\* acquire_stream_lock: fcntl.flock(lock_fd, LOCK_EX | LOCK_NB); when it raises,
\* the descriptor is closed, None is returned and start_transcoder returns False
AcquireFlock(p) ==
    /\ sup[p].pc = "acq_flock"
    /\ LET fd == sup[p].lock_fd
       IN IF FlockHeld(fd.stream, fd.ino)
          THEN LET r == Leave(sup[p])
               IN /\ sup' = [sup EXCEPT ![p] = [r EXCEPT !.pc = Continue(r)]]
                  /\ obs' = ObsReturn(p, obs[p].call, "LockBusy", workers)
          ELSE /\ sup' = [sup EXCEPT ![p].pc = "acq_write",
                                     ![p].lock_fd = [fd EXCEPT !.locked = TRUE]]
               /\ UNCHANGED obs
    /\ UNCHANGED <<workers, lockFile, sidecar, faults, overlap, endless, defunct, auto>>

\* acquire_stream_lock: os.write(lock_fd, str(os.getpid()).encode()), os.fsync
AcquireWrite(p) ==
    /\ sup[p].pc = "acq_write"
    /\ LET fd == sup[p].lock_fd
           s == fd.stream
       IN lockFile' = IF lockFile[s].ino = fd.ino
                      THEN [lockFile EXCEPT ![s].content = WriteAtStart(@, getpid(p))]
                      ELSE lockFile
    /\ sup' = [sup EXCEPT ![p].pc = "launch"]
    /\ UNCHANGED <<workers, sidecar, faults, overlap, endless, defunct, auto, obs>>

\* the exited children of p are waited for: by Popen(), which polls the
\* children of earlier Popen objects first, and by the OS when p ends
Reaped(p) ==
    IF defunct.parent = p THEN NoDefunct ELSE defunct

\* the pids the process p creates can get, its exited children waited for
FreePidsFor(p) ==
    FreePids \cup (IF defunct.parent = p THEN {defunct.pid} ELSE {})

\* start_transcoder: os.makedirs and subprocess.Popen(cmd); an exception of
\* either leads to  return False  through the finally clause
Launch(p) ==
    /\ sup[p].pc = "launch"
    /\ \/ /\ FreePidsFor(p) # {}
          /\ LET pid == Min(FreePidsFor(p))
             IN /\ workers' = workers \cup
                       {[pid |-> pid, stream |-> sup[p].stream_name,
                         signalled |-> FALSE, parent |-> p]}
                /\ sup' = [sup EXCEPT ![p].pc = "sidecar", ![p].process = pid]
          /\ defunct' = Reaped(p)
          /\ UNCHANGED faults
       \/ /\ FreePidsFor(p) = {} \/ faults < MaxFaults
          /\ faults' = IF FreePidsFor(p) = {} THEN faults ELSE faults + 1
          /\ sup' = [sup EXCEPT ![p].pc = "release", ![p].ret = "LaunchFailed"]
          /\ UNCHANGED <<workers, defunct>>
    /\ UNCHANGED <<lockFile, sidecar, overlap, endless, auto, obs>>

\* the lock given up before the sidecar is written
WriteSidecar_Unlocked(p) ==
    /\ sup[p].pc = "sidecar"
    /\ sidecar' = [sidecar EXCEPT ![sup[p].stream_name] = sup[p].process]
    /\ sup' = [sup EXCEPT ![p].pc = "release", ![p].ret = "Started",
                          ![p].lock_fd = NoFd]
    /\ UNCHANGED <<workers, lockFile, faults, overlap, endless, defunct, auto, obs>>

\* start_transcoder: the launched pid is written to <lock_file>.pid; when
\* open() raises, the handler of Exception leads to  return False  through
\* the finally clause and the launched process goes on running
WriteSidecar(p) ==
    /\ sup[p].pc = "sidecar"
    /\ \/ /\ sidecar' = [sidecar EXCEPT ![sup[p].stream_name] = sup[p].process]
          /\ sup' = [sup EXCEPT ![p].pc = "release", ![p].ret = "Started"]
          /\ UNCHANGED faults
       \/ /\ faults < MaxFaults
          /\ faults' = faults + 1
          /\ sup' = [sup EXCEPT ![p].pc = "release", ![p].ret = "LaunchFailed"]
          /\ UNCHANGED sidecar
    /\ UNCHANGED <<workers, lockFile, overlap, endless, defunct, auto, obs>>

\* start_transcoder: finally: time.sleep(1); release_stream_lock(lock_fd),
\* then the return (or the KeyboardInterrupt going on to monitor_loop)
Release(p) ==
    /\ sup[p].pc = "release"
    /\ LET r == Leave(sup[p])
       IN sup' = [sup EXCEPT ![p] = [r EXCEPT !.pc = Continue(r)]]
    /\ obs' = IF sup[p].interrupted
              THEN [obs EXCEPT ![p].call = NoCall]
              ELSE ObsReturn(p, obs[p].call, sup[p].ret, workers)
    /\ UNCHANGED <<workers, lockFile, sidecar, faults, overlap, endless, defunct, auto>>

(* ------------------------------------------------------------------ *)
(* stop_transcoder                                                      *)
(* ------------------------------------------------------------------ *)

\* the matching processes process_iter yields before w (ascending pid)
Before(w, s) ==
    {v \in Matching(s) : v.pid < w.pid}

\* the matching processes whose wait(timeout=5) raises TimeoutExpired, when
\* the first k of them do not exit in time: the loop continues past them
TimedOut(s, k) ==
    {w \in Matching(s) : Cardinality(Before(w, s)) < k}

\* the first matching process that exits in time, if one does
Exited(s, k) ==
    {w \in Matching(s) : Cardinality(Before(w, s)) = k}

\* the process table after stop_transcoder(s)
StopWorkers(s, k) ==
    (workers \ (TimedOut(s, k) \cup Exited(s, k)))
        \cup {[w EXCEPT !.signalled = TRUE] : w \in TimedOut(s, k)}

\* os.remove(lock_file), reached only after a process has exited
StopLockFile(s, k) ==
    IF Exited(s, k) # {} THEN [lockFile EXCEPT ![s] = NoFile] ELSE lockFile

\* os.remove(f"{lock_file}.pid"), skipped when removing the lock file raised
StopSidecar(s, k) ==
    IF Exited(s, k) # {} /\ lockFile[s] # NoFile
    THEN [sidecar EXCEPT ![s] = NoPid]
    ELSE sidecar

StopResult(s, k) ==
    IF Exited(s, k) # {} THEN "Stopped" ELSE "NotFound"

\* what a stop_transcoder(s) call did
StopRecord(s, k) ==
    [stream |-> s, had_worker |-> s \in LiveStreams, res |-> StopResult(s, k),
     signalled |-> TimedOut(s, k) \cup Exited(s, k) # {},
     removed |-> \/ StopLockFile(s, k) # lockFile
                 \/ StopSidecar(s, k) # sidecar]

\* the numbers of timeouts a stop_transcoder(s) call can meet
Timeouts(s) ==
    {k \in 0..Cardinality(Matching(s)) : faults + k <= MaxFaults}

\* stop_transcoder(s) as a whole
stop_transcoder(s, k) ==
    /\ workers' = StopWorkers(s, k)
    /\ lockFile' = StopLockFile(s, k)
    /\ sidecar' = StopSidecar(s, k)
    /\ faults' = faults + k

\* monitor_loop: stop_transcoder for the next stream of stopped_streams
StopTranscoder(p) ==
    /\ sup[p].pc = "stop"
    /\ \E s \in sup[p].stopped_streams : \E k \in Timeouts(s) :
         LET r == [sup[p] EXCEPT !.stopped_streams = @ \ {s}]
         IN /\ stop_transcoder(s, k)
            /\ sup' = [sup EXCEPT ![p] = [r EXCEPT !.pc = Continue(r)]]
            /\ obs' = [obs EXCEPT ![p].last_stop = Kept(p, StopRecord(s, k), NoStop),
                                  ![p].log = <<>>,
                                  ![p].stops = Kept(p, @ \cup {s}, {}),
                                  ![p].response = NoResponse,
                                  ![p].cycle_ok = @ /\ StopResult(s, k) = "Stopped"]
    /\ UNCHANGED <<overlap, endless, defunct, auto>>

(* ------------------------------------------------------------------ *)
(* monitor_loop: sleep, shutdown                                        *)
(* ------------------------------------------------------------------ *)

\* time.sleep(5) and the next iteration
Sleep(p) ==
    /\ sup[p].pc = "sleep"
    /\ LET done == IF endless THEN 1 ELSE sup[p].cycle + 1
           more == endless \/ done < (IF overlap THEN MaxCyclesOverlap ELSE MaxCycles)
       IN sup' = [sup EXCEPT ![p] =
                    [Idle(IF more THEN "cleanup_glob" ELSE "parked")
                        EXCEPT !.cycle = done]]
    /\ obs' = [obs EXCEPT ![p].cycle_ok = FALSE, ![p].stale_seen = {},
                          ![p].malformed_seen = {},
                          ![p].poll_failed = FALSE, ![p].response = NoResponse,
                          ![p].toStart = {}, ![p].toStop = {}, ![p].starts = {},
                          ![p].stops = {}, ![p].failed = {}]
    /\ UNCHANGED <<workers, lockFile, sidecar, faults, overlap, endless, defunct, auto>>

\* KeyboardInterrupt: inside the try block of start_transcoder the finally
\* clause still sleeps and releases; anywhere else the descriptor, if one is
\* open, stays open until the process exits
Interrupt(p) ==
    /\ Alive(p)
    /\ ~sup[p].interrupted
    /\ sup' = [sup EXCEPT ![p] =
                 IF sup[p].pc \in {"launch", "sidecar"}
                 THEN [sup[p] EXCEPT !.pc = "release", !.interrupted = TRUE,
                                     !.exit_list = HardcodedStreams]
                 ELSE [Idle("shutdown") EXCEPT !.interrupted = TRUE,
                                               !.lock_fd = sup[p].lock_fd,
                                               !.exit_list = HardcodedStreams,
                                               !.cycle = sup[p].cycle]]
    /\ obs' = [obs EXCEPT ![p].cycle_ok = FALSE,
                          ![p].call = IF sup[p].pc \in {"launch", "sidecar"}
                                      THEN @ ELSE NoCall,
                          ![p].poll_failed = FALSE, ![p].response = NoResponse,
                          ![p].toStart = {}, ![p].toStop = {}, ![p].starts = {},
                          ![p].stops = {}, ![p].failed = {}]
    /\ UNCHANGED <<workers, lockFile, sidecar, faults, overlap, endless, defunct, auto>>

\* a name whose ingest URL occurs in the command line of no worker there
\* can be: stop_transcoder of it finds nothing and returns False
NeverMatches(s) ==
    \A t \in Published : ~Contains(Cmdline(t), IngestUrl(s))

RECURSIVE SkipIdle(_)
SkipIdle(list) ==
    IF list # <<>> /\ NeverMatches(Head(list)) THEN SkipIdle(Tail(list)) ELSE list

\* monitor_loop after the break: stop_transcoder for each name of the fixed
\* list, then the process ends and the OS closes its descriptors
ShutdownStop(p) ==
    /\ sup[p].pc = "shutdown"
    /\ LET s == Head(sup[p].exit_list)
           rest == SkipIdle(Tail(sup[p].exit_list))
       IN \E k \in Timeouts(s) :
            /\ stop_transcoder(s, k)
            /\ sup' = [sup EXCEPT ![p] =
                         IF rest = <<>>
                         THEN [Idle("exited") EXCEPT !.cycle = sup[p].cycle]
                         ELSE [sup[p] EXCEPT !.exit_list = rest]]
            /\ obs' = [obs EXCEPT ![p].last_stop = Kept(p, StopRecord(s, k), NoStop),
                                  ![p].log = <<>>,
                                  ![p].stop_issued =
                                      @ \cup {s} \cup (Range(Tail(sup[p].exit_list)) \ Range(rest)),
                                  ![p].left_running =
                                      IF rest = <<>>
                                      THEN Kept(p, {w.stream : w \in StopWorkers(s, k)}, {})
                                      ELSE {},
                                  ![p].left_unsignalled =
                                      IF rest = <<>>
                                      THEN Kept(p, {w.stream : w \in {v \in StopWorkers(s, k) :
                                                                        ~v.signalled}}, {})
                                      ELSE {}]
            /\ defunct' = IF rest = <<>> THEN Reaped(p) ELSE defunct
    /\ UNCHANGED <<overlap, endless, auto>>

(* ------------------------------------------------------------------ *)
(* Environment                                                          *)
(* ------------------------------------------------------------------ *)

\* a supervisor process is killed: the OS closes its descriptors, which
\* releases its flock; its lock file stays
Crash(p) ==
    /\ Alive(p)
    /\ faults < MaxFaults
    /\ faults' = faults + 1
    /\ sup' = [sup EXCEPT ![p] = Idle("dead")]
    /\ obs' = [obs EXCEPT ![p] = NoObs]
    /\ defunct' = Reaped(p)
    /\ UNCHANGED <<workers, lockFile, sidecar, overlap, endless, auto>>

\* an ffmpeg worker ends on its own; while the supervisor that launched it
\* runs, the process stays in the table until that supervisor waits for it
\* (its entry may or may not still give a command line), otherwise the OS
\* removes it at once
WorkerExit ==
    /\ faults < MaxFaults
    /\ faults' = faults + 1
    /\ \E w \in workers :
         /\ workers' = workers \ {w}
         /\ obs' = [p \in Supervisors |->
                      [obs[p] EXCEPT !.cycle_ok = FALSE,
                                     !.call = IF @.stream = w.stream THEN NoCall ELSE @,
                                     !.log = IF @ # <<>> /\ @[Len(@)].stream = w.stream
                                             THEN <<>> ELSE @]]
         /\ \/ UNCHANGED defunct
            \/ /\ defunct = NoDefunct
               /\ Alive(w.parent)
               /\ defunct' = [pid |-> w.pid, parent |-> w.parent]
    /\ UNCHANGED <<sup, lockFile, sidecar, overlap, endless, auto>>

Next ==
    \/ \E p \in Supervisors : Boot(p)
    \/ \E p \in Supervisors : CleanupGlob(p)
    \/ \E p \in Supervisors : CleanupFile(p)
    \/ \E p \in Supervisors : PollScan(p)
    \/ \E p \in Supervisors : StartCheck(p)
    \/ \E p \in Supervisors : AcquireOpen(p)
    \/ \E p \in Supervisors : AcquireFlock(p)
    \/ \E p \in Supervisors : AcquireWrite(p)
    \/ \E p \in Supervisors : Launch(p)
    \/ \E p \in Supervisors : WriteSidecar(p)
    \/ \E p \in Supervisors : Release(p)
    \/ \E p \in Supervisors : StopTranscoder(p)
    \/ \E p \in Supervisors : Sleep(p)
    \/ \E p \in Supervisors : Interrupt(p)
    \/ \E p \in Supervisors : ShutdownStop(p)
    \/ \E p \in Supervisors : Crash(p)
    \/ WorkerExit

Spec == Init /\ [][Next]_vars

SpecOverlap == InitOverlap /\ [][Next]_vars

\* the steps of the program of supervisor p: a started process goes on
\* running, every sleep and every wait of it is bounded
Step(p) ==
    \/ Boot(p) \/ CleanupGlob(p) \/ CleanupFile(p) \/ PollScan(p)
    \/ StartCheck(p) \/ AcquireOpen(p) \/ AcquireFlock(p) \/ AcquireWrite(p)
    \/ Launch(p) \/ WriteSidecar(p) \/ Release(p) \/ StopTranscoder(p)
    \/ Sleep(p) \/ ShutdownStop(p)

Fairness ==
    \A p \in Supervisors : WF_vars(Step(p))

SpecLive == InitLive /\ [][Next]_vars /\ Fairness

SpecLeftover == InitLeftover /\ [][Next]_vars

(* ------------------------------------------------------------------ *)
(* AutoTranscoder (src/auto-transcoder.py)                              *)
(* ------------------------------------------------------------------ *)

\* a freshly constructed AutoTranscoder enters monitor_loop
InitAuto ==
    /\ Fresh
    /\ auto = AutoIdle("poll")
    /\ overlap = FALSE
    /\ endless = FALSE

\* the same, and  while True  goes on for ever
InitAutoLive ==
    /\ Fresh
    /\ auto = AutoIdle("poll")
    /\ overlap = FALSE
    /\ endless = TRUE

\* self.active_streams.keys()
AutoKeys(a) ==
    {s \in Published : a.active_streams[s] # NoPid}

\* the process behind the handle of s, while it is in the process table
AutoProcess(s) ==
    {w \in workers : w.parent = "auto" /\ w.pid = auto.active_streams[s]}

\* pids Popen can get: a child that has exited keeps its pid until it is
\* waited for, and the handles in active_streams are never polled
AutoFreePids ==
    {n \in FreePids : \A s \in Published : auto.active_streams[s] # n}

\* where monitor_loop goes on after a call has returned
AutoContinue(r) ==
    IF r.new_streams # {} THEN "start"
    ELSE IF r.stopped_streams # {} THEN "stop"
    ELSE "sleep"

\* monitor_loop: the poll and the two set differences
AutoPoll ==
    /\ auto.pc = "poll"
    /\ \E resp \in Responses :
         LET polled == get_active_streams_from_nginx(resp)
             active == AutoKeys(auto)
             r == [auto EXCEPT !.current_streams = polled,
                               !.new_streams = polled \ active,
                               !.stopped_streams = active \ polled]
         IN auto' = [r EXCEPT !.pc = AutoContinue(r)]
    /\ UNCHANGED <<sup, workers, lockFile, sidecar, faults, overlap, endless, defunct, obs>>

\* start_transcoder(s): nothing for a key of active_streams; otherwise Popen
\* and, when it has returned, the new entry; an exception of Popen is
\* printed and leaves active_streams as it was
AutoStartTranscoder(s, r) ==
    IF s \in AutoKeys(auto)
    THEN /\ auto' = [r EXCEPT !.pc = AutoContinue(r)]
         /\ UNCHANGED <<workers, faults>>
    ELSE \/ /\ AutoFreePids # {}
            /\ LET pid == Min(AutoFreePids)
               IN /\ workers' = workers \cup
                         {[pid |-> pid, stream |-> s, signalled |-> FALSE,
                           parent |-> "auto"]}
                  /\ auto' = [r EXCEPT !.pc = AutoContinue(r),
                                       !.active_streams[s] = pid]
            /\ UNCHANGED faults
         \/ /\ AutoFreePids = {} \/ faults < MaxFaults
            /\ faults' = IF AutoFreePids = {} THEN faults ELSE faults + 1
            /\ auto' = [r EXCEPT !.pc = AutoContinue(r)]
            /\ UNCHANGED workers

\* monitor_loop: start_transcoder for the next stream of new_streams; an
\* OSError of os.makedirs leaves start_transcoder and the try block of
\* monitor_loop, which prints it, sleeps and begins the next iteration
AutoStart ==
    /\ auto.pc = "start"
    /\ \E s \in auto.new_streams :
         \/ AutoStartTranscoder(s, [auto EXCEPT !.new_streams = @ \ {s}])
         \/ /\ s \notin AutoKeys(auto)
            /\ faults < MaxFaults
            /\ faults' = faults + 1
            /\ auto' = [auto EXCEPT !.pc = "sleep", !.new_streams = {},
                                    !.stopped_streams = {}]
            /\ UNCHANGED workers
    /\ UNCHANGED <<sup, lockFile, sidecar, overlap, endless, defunct, obs>>

\* stop_transcoder(s): terminate() and wait(timeout=10) on the handle, on
\* TimeoutExpired kill() and no further wait, then  del active_streams[s]
\* in every case; a process that has exited before is reaped by the wait
AutoStopTranscoder(s, r) ==
    /\ auto' = [r EXCEPT !.active_streams[s] = NoPid]
    /\ IF s \notin AutoKeys(auto) \/ AutoProcess(s) = {}
       THEN UNCHANGED <<workers, faults>>
       ELSE \/ /\ workers' = workers \ AutoProcess(s)
               /\ UNCHANGED faults
            \/ /\ faults < MaxFaults
               /\ faults' = faults + 1
               /\ workers' = (workers \ AutoProcess(s))
                                \cup {[w EXCEPT !.signalled = TRUE] : w \in AutoProcess(s)}

\* monitor_loop: stop_transcoder for the next stream of stopped_streams
AutoStop ==
    /\ auto.pc = "stop"
    /\ \E s \in auto.stopped_streams :
         LET r == [auto EXCEPT !.stopped_streams = @ \ {s}]
         IN AutoStopTranscoder(s, [r EXCEPT !.pc = AutoContinue(r)])
    /\ UNCHANGED <<sup, lockFile, sidecar, overlap, endless, defunct, obs>>

\* time.sleep(5) and the next iteration
AutoSleep ==
    /\ auto.pc = "sleep"
    /\ LET done == IF endless THEN 1 ELSE auto.cycle + 1
       IN auto' = [auto EXCEPT !.pc = IF endless \/ done < MaxCycles
                                      THEN "poll" ELSE "parked",
                               !.current_streams = {},
                               !.cycle = done]
    /\ UNCHANGED <<sup, workers, lockFile, sidecar, faults, overlap, endless, defunct, obs>>

\* KeyboardInterrupt inside the loop: break
AutoInterrupt ==
    /\ auto.pc \in {"poll", "start", "stop", "sleep"}
    /\ auto' = [auto EXCEPT !.pc = IF AutoKeys(auto) = {} THEN "exited" ELSE "shutdown",
                            !.interrupted = TRUE,
                            !.current_streams = {}, !.new_streams = {},
                            !.stopped_streams = {}]
    /\ UNCHANGED <<sup, workers, lockFile, sidecar, faults, overlap, endless, defunct, obs>>

\* monitor_loop after the break: stop_transcoder for every key of
\* active_streams, then the process ends
AutoShutdownStop ==
    /\ auto.pc = "shutdown"
    /\ \E s \in AutoKeys(auto) :
         AutoStopTranscoder(s, [auto EXCEPT !.pc = IF AutoKeys(auto) = {s}
                                                  THEN "exited" ELSE "shutdown"])
    /\ UNCHANGED <<sup, lockFile, sidecar, overlap, endless, defunct, obs>>

\* an ffmpeg child of the AutoTranscoder leaves the process table: on its
\* own, or because of the SIGKILL it was sent
AutoWorkerExit ==
    /\ \E w \in workers :
         /\ w.parent = "auto"
         /\ workers' = workers \ {w}
         /\ IF w.signalled
            THEN UNCHANGED faults
            ELSE faults < MaxFaults /\ faults' = faults + 1
    /\ UNCHANGED <<sup, lockFile, sidecar, overlap, endless, defunct, auto, obs>>

AutoStep ==
    AutoPoll \/ AutoStart \/ AutoStop \/ AutoSleep \/ AutoShutdownStop

NextAuto ==
    \/ AutoPoll
    \/ AutoStart
    \/ AutoStop
    \/ AutoSleep
    \/ AutoInterrupt
    \/ AutoShutdownStop
    \/ AutoWorkerExit

SpecAuto == InitAuto /\ [][NextAuto]_vars

\* a started process goes on running, every sleep and wait of it is bounded
SpecAutoLive == InitAutoLive /\ [][NextAuto]_vars /\ WF_vars(AutoStep)

(* ------------------------------------------------------------------ *)
(* Claims                                                               *)
(* ------------------------------------------------------------------ *)

\* the workers whose input is the ingest URL of exactly s
WorkersOf(s) ==
    {w \in workers : w.stream = s}

\* no supervisor was killed or interrupted and no launch or termination failed
Undisturbed ==
    /\ faults = 0
    /\ \A p \in Supervisors :
          ~sup[p].interrupted /\ sup[p].pc \notin {"shutdown", "exited", "dead"}

\* C1: whatever the interleaving of the steps (process scan, lock acquire,
\* launch, hold, release) of the start_transcoder calls of two supervisors,
\* no stream ever has two worker processes
C1_AtMostOneWorker ==
    Undisturbed => \A s \in Published : Cardinality(WorkersOf(s)) <= 1

\* C2: at every instant at most one process holds an acquired lock of a stream
C2_OneLockHolder ==
    \A s \in AllStreams : Cardinality(Holders(s)) <= 1

\* C3: a monitor_loop cycle in which no launch and no stop failed ends with
\* exactly the polled streams having a live worker
C3_Convergence ==
    \A p \in Supervisors :
        sup[p].pc = "sleep" /\ obs[p].cycle_ok
            => LiveStreams = sup[p].current_streams

\* C4: the active_transcoders set a cycle computes is the set of the streams
\* that have a live worker when it scans
C4_ScanFindsEveryWorker ==
    [][\A p \in Supervisors :
          sup[p].pc = "poll" /\ sup'[p].pc \in {"start", "stop", "sleep"}
              => sup'[p].active_transcoders = LiveStreams]_vars

\* C5: of two start_transcoder(s) calls in a row, the first made when s has no
\* worker and its lock is free, the first returns Started, the second
\* AlreadyRunning, and one worker for s is found afterwards
C5_StartTwice ==
    \A p \in Supervisors :
        LET log == obs[p].log
        IN Len(log) = 2 /\ log[1].stream = log[2].stream /\ log[1].free
           /\ log[1].res # "LaunchFailed" /\ log[2].res # "LaunchFailed"
             => /\ log[1].res = "Started"
                /\ log[2].res = "AlreadyRunning"
                /\ log[2].found = 1

\* C6: is_stream_transcoding(s) reports running only if a worker whose input
\* is the ingest URL of exactly s is alive
C6_MatchIsExact ==
    \A s \in AllStreams : is_stream_transcoding(s) => WorkersOf(s) # {}

\* C7: no worker that a stop_transcoder call sent the termination signal to
\* is alive once the call has returned
C7_ForceKill ==
    \A w \in workers : ~w.signalled

\* C8: when a supervisor has shut down, every stream whose worker is still
\* alive was passed to stop_transcoder, and every such worker was signalled
\* (also when no termination timed out and nothing else failed)
C8_ShutdownStopsAll ==
    \A p \in Supervisors :
        sup[p].pc = "exited" /\ faults = 0
            => /\ obs[p].left_running \subseteq obs[p].stop_issued
               /\ obs[p].left_unsignalled = {}

\* C9: a lock file that records the pid of a dead process is gone when the
\* cleanup_stale_locks pass has ended; start_transcoder for that stream is
\* then not refused for the lock, and with no worker running it is not
\* refused at all: it launches
C9_StaleLockReclaimed ==
    \A p \in Supervisors :
        /\ sup[p].pc = "poll"
             => \A s \in obs[p].stale_seen : lockFile[s] = NoFile
        /\ \A i \in 1..Len(obs[p].log) :
             LET call == obs[p].log[i]
             IN call.reclaimed
                  => /\ call.res # "LockBusy"
                     /\ call.none => call.res \in {"Started", "LaunchFailed"}

\* C9 happens: a stale lock was reclaimed and the stream then started
C9_Witness ==
    \E p \in Supervisors : \E i \in 1..Len(obs[p].log) :
        /\ obs[p].log[i].reclaimed
        /\ obs[p].log[i].none
        /\ obs[p].log[i].res = "Started"

\* C10: stop_transcoder(s) with no worker of s running returns False, signals
\* no process and removes no file
C10_StopWithoutWorker ==
    \A p \in Supervisors :
        LET stop == obs[p].last_stop
        IN stop.res # "None" /\ ~stop.had_worker
             => /\ stop.res = "NotFound"
                /\ ~stop.signalled
                /\ ~stop.removed

\* the positions of monitor_loop between the poll and the sleep of a cycle
InCycle(p) ==
    sup[p].pc \in {"start", "acq_open", "acq_flock", "acq_write", "launch",
                   "sidecar", "release", "stop", "sleep"}

\* nobody stops or kills a supervisor
NoOperator ==
    \A p \in Supervisors :
        ~sup[p].interrupted /\ sup[p].pc \notin {"shutdown", "exited", "dead"}

\* every poll returns s
StaysDesired(s) ==
    \A p \in Supervisors : InCycle(p) => s \in sup[p].current_streams

\* no start_transcoder call fails to launch
LaunchesSucceed ==
    \A p \in Supervisors : sup[p].ret # "LaunchFailed"

\* the sidecar of s is left from a launch and the worker of s is gone
WorkerDied(s) ==
    sidecar[s] # NoPid /\ WorkersOf(s) = {}

\* C11: when the worker of a stream dies, and the stream stays in the polled
\* set, launches succeed and the supervisor is left running, then later
\* exactly one worker of the stream is running again
C11_Recovery ==
    \A s \in Published :
        [](NoOperator /\ StaysDesired(s) /\ LaunchesSucceed)
            => [](WorkerDied(s) => <>(Cardinality(WorkersOf(s)) = 1))

\* C12: the start_transcoder calls a cycle plans are those for the polled
\* streams without a live worker, and its stop_transcoder calls those for
\* the streams with a live worker that were not polled (also in a run in
\* which nothing has failed)
C12_ExactDiff ==
    [][\A p \in Supervisors :
          faults = 0 /\ sup[p].pc = "poll" /\ sup'[p].pc \in {"start", "stop", "sleep"}
              => /\ sup'[p].new_streams = sup'[p].current_streams \ LiveStreams
                 /\ sup'[p].stopped_streams = LiveStreams \ sup'[p].current_streams]_vars

\* C13: a supervisor started after another one has ended, in its first cycle,
\* returns AlreadyRunning for a stream that has a worker, and when nothing
\* fails it ends the cycle with no worker of a stream that was not polled:
\* such workers were all launched by the earlier supervisor
C13_ForeignWorker ==
    \A p \in Supervisors :
        /\ \E q \in Supervisors \ {p} : sup[q].pc \in {"dead", "exited"}
        /\ sup[p].cycle = 0
        => /\ \A i \in 1..Len(obs[p].log) :
                obs[p].log[i].stream \in AllStreams /\ ~obs[p].log[i].free
                    => obs[p].log[i].res = "AlreadyRunning"
           /\ faults = 0 /\ sup[p].pc = "sleep" /\ obs[p].cycle_ok
                => LiveStreams \subseteq sup[p].current_streams

\* C14: a cycle in which a launch failed still calls start_transcoder for
\* every stream of new_streams and stop_transcoder for every stream of
\* stopped_streams before it sleeps
C14_FailureIsolated ==
    \A p \in Supervisors :
        sup[p].pc = "sleep" /\ obs[p].failed # {}
            => /\ obs[p].starts = obs[p].toStart
               /\ obs[p].stops = obs[p].toStop

\* C14 happens: a launch failed in a cycle that had another stream to start
C14_Witness ==
    \E p \in Supervisors :
        /\ sup[p].pc = "sleep"
        /\ obs[p].failed # {}
        /\ obs[p].toStart \ obs[p].failed # {}

\* the launch of start_transcoder(s) has just failed
LaunchFailedFor(s) ==
    \E p \in Supervisors :
        /\ sup[p].pc = "release"
        /\ sup[p].ret = "LaunchFailed"
        /\ sup[p].stream_name = s

\* C15: when the launch of a stream failed, and the stream stays in the
\* polled set and the supervisor is left running, a worker of the stream is
\* running later on (launches fail only a bounded number of times)
C15_RetryAfterFailure ==
    \A s \in Published :
        [](NoOperator /\ StaysDesired(s))
            => [](LaunchFailedFor(s) => <>(WorkersOf(s) # {}))

\* C16: a cycle whose stats request failed (status other than 200, body that
\* does not parse, refused connection, timeout) goes on with an empty
\* current_streams, as after a poll that found no stream: it starts nothing,
\* it has every stream of active_transcoders to stop, and the loop comes to
\* its sleep
C16_PollFailureNotFatal ==
    \A p \in Supervisors :
        obs[p].poll_failed
            => /\ sup[p].pc \in {"stop", "sleep"}
               /\ sup[p].current_streams = {}
               /\ sup[p].new_streams = {}
               /\ obs[p].starts = {}
               /\ obs[p].toStop = sup[p].active_transcoders

\* C16 happens: the cycle of a failed poll has got to its sleep, with a
\* worker still running
C16_Witness ==
    \E p \in Supervisors :
        obs[p].poll_failed /\ sup[p].pc = "sleep" /\ workers # {}

\* C17: when another supervisor holds the acquired lock of the stream, the
\* flock attempt of acquire_stream_lock does not acquire it: in that one
\* step the caller gets back to monitor_loop with no descriptor, and the
\* holders of the lock are the same as before
C17_AcquireNeverWaits ==
    [][\A p \in Supervisors :
          LET s == sup[p].stream_name
          IN /\ sup[p].pc = "acq_flock"
             /\ sup'[p].pc \in {"acq_write", "start", "stop", "sleep"}
             /\ Holders(s) \ {p} # {}
             => /\ sup'[p].pc # "acq_write"
                /\ sup'[p].lock_fd = NoFd
                /\ {q \in Supervisors : sup'[q].lock_fd.stream = s
                                         /\ sup'[q].lock_fd.locked} = Holders(s)]_vars

\* supervisor p makes, in this step, a stop_transcoder(s) call
StopCall(p, s) ==
    \/ /\ sup[p].pc = "stop"
       /\ sup'[p].pc \in {"stop", "sleep"}
       /\ s \in sup[p].stopped_streams \ sup'[p].stopped_streams
    \/ /\ sup[p].pc = "shutdown"
       /\ sup'[p].pc \in {"shutdown", "exited"}
       /\ s = Head(sup[p].exit_list)

\* the call returns True: a worker has left the process table
StoppedBy(p, s) ==
    /\ StopCall(p, s)
    /\ workers' # workers
    /\ workers' \subseteq workers

\* the call has signalled a worker, and no worker has left the process table
NotTerminatedBy(p, s) ==
    /\ StopCall(p, s)
    /\ workers' # workers
    /\ Cardinality(workers') = Cardinality(workers)

\* C18: after a stop_transcoder(s) call that returns True, neither the lock
\* file of s nor its sidecar pid file exists (also when nothing has failed)
C18_StopRemovesFiles ==
    [][\A p \in Supervisors : \A s \in AllStreams :
          StoppedBy(p, s) /\ faults' = 0
              => lockFile'[s] = NoFile /\ sidecar'[s] = NoPid]_vars

\* C19: after a stop_transcoder(s) call that signalled a worker and did not
\* get it to exit, neither the lock file of s nor its sidecar pid file exists
C19_CleanupAfterFailedStop ==
    [][\A p \in Supervisors : \A s \in AllStreams :
          NotTerminatedBy(p, s)
              => lockFile'[s] = NoFile /\ sidecar'[s] = NoPid]_vars

\* C20: a lock file whose content is empty or no number, listed by a
\* cleanup_stale_locks pass, is gone when the pass has ended, and so is every
\* listed lock file that records a dead process
C20_MalformedLockRemoved ==
    \A p \in Supervisors :
        sup[p].pc = "poll" /\ obs[p].malformed_seen # {}
            => \A s \in obs[p].malformed_seen \cup obs[p].stale_seen :
                   lockFile[s] = NoFile

\* C20 happens: one pass has met a lock file that holds no number and, after
\* it, another one that records a dead process
C20_Witness ==
    \E p \in Supervisors :
        /\ sup[p].pc = "poll"
        /\ \E s \in obs[p].malformed_seen : s \in Published
        /\ obs[p].stale_seen # {}

\* C21: when a cleanup pass has ended, no stream whose lock file the pass
\* reclaimed (owner dead, or owner identifier malformed) has a sidecar pid
\* file any more.
C21_SidecarReclaimed ==
    \A p \in Supervisors :
        sup[p].pc = "poll" =>
            \A s \in obs[p].stale_seen \cup obs[p].malformed_seen :
                lockFile[s] = NoFile => sidecar[s] = NoPid

\* the descriptor of p is open on the lock of the stream being started and
\* p holds the flock on it
HoldsOwnLock(r) ==
    r.lock_fd.locked /\ r.lock_fd.stream = r.stream_name /\ r.stream_name # <<>>

\* C22: inside start_transcoder(s) the caller holds the lock of s from the
\* moment flock succeeded, through the pid write, the creation of the output
\* directories, the launch and the sidecar write, up to the finally clause;
\* each of these steps starts and ends with the lock held.
C22_LockHeldThroughLaunch ==
    [][\A p \in Supervisors :
          /\ sup[p].pc \in {"acq_write", "launch", "sidecar"}
          /\ sup'[p].pc \in {"launch", "sidecar", "release"}
          => /\ HoldsOwnLock(sup[p])
             /\ HoldsOwnLock(sup'[p])
             /\ sup'[p].lock_fd = sup[p].lock_fd]_vars

\* a call that launched its worker and wrote the sidecar is in its finally
\* clause, the lock still held
C22_Witness ==
    \E p \in Supervisors :
        /\ sup[p].pc = "release"
        /\ sup[p].ret = "Started"
        /\ HoldsOwnLock(sup[p])
        /\ sidecar[sup[p].stream_name] = sup[p].process
        /\ \E w \in workers : w.pid = sup[p].process /\ w.stream = sup[p].stream_name

\* positions of monitor_loop outside every start_transcoder call
BetweenCalls ==
    {"cleanup_glob", "cleanup_file", "poll", "start", "stop", "sleep"}

\* C23: a supervisor that is not inside a start_transcoder call has no lock
\* descriptor open and holds no stream lock, whichever way its calls
\* returned (started, directory or process creation failed, sidecar write
\* failed, lock busy).
C23_NoLockBetweenCalls ==
    \A p \in Supervisors :
        sup[p].pc \in BetweenCalls =>
            /\ sup[p].lock_fd = NoFd
            /\ \A s \in AllStreams : p \notin Holders(s)

\* a call whose sidecar write failed (the worker it launched is running) has
\* returned and the lock is free
C23_Witness ==
    \E p \in Supervisors :
        /\ sup[p].pc \in BetweenCalls
        /\ obs[p].log # <<>>
        /\ LET last == obs[p].log[Len(obs[p].log)]
           IN /\ last.res = "LaunchFailed"
              /\ last.found >= 1
              /\ WorkersOf(last.stream) # {}
              /\ Holders(last.stream) = {}
        /\ sup[p].lock_fd = NoFd

\* p takes s from new_streams and calls start_transcoder(s)
StartCall(p, s) ==
    /\ sup[p].pc = "start"
    /\ s \in sup[p].new_streams
    /\ s \notin sup'[p].new_streams
    /\ sup'[p].pc \notin {"shutdown", "dead"}

\* C24: start_transcoder(s) called while a worker of s runs returns
\* AlreadyRunning and changes nothing: no descriptor is opened and no lock
\* taken, lock file and sidecar of every stream stay as they are, and the
\* set of processes stays as it is.
C24_AlreadyRunningNoOp ==
    [][\A p \in Supervisors : \A s \in AllStreams :
          StartCall(p, s) /\ WorkersOf(s) # {}
          => /\ sup'[p].pc \in {"start", "stop", "sleep"}
             /\ sup'[p].lock_fd = NoFd
             /\ obs'[p].log # <<>>
             /\ obs'[p].log[Len(obs'[p].log)].stream = s
             /\ obs'[p].log[Len(obs'[p].log)].res = "AlreadyRunning"
             /\ UNCHANGED <<workers, lockFile, sidecar>>]_vars

\* C25: a start_transcoder(s) call that reaches flock while another process
\* holds the lock of s returns to monitor_loop (LockBusy) with the set of
\* workers and the sidecars unchanged, and s is no longer among the streams
\* the cycle has still to start.
C25_BusyLaunchesNothing ==
    [][\A p \in Supervisors :
          LET s == sup[p].stream_name
          IN /\ sup[p].pc = "acq_flock"
             /\ sup'[p].pc \notin {"acq_flock", "shutdown", "dead"}
             /\ Holders(s) \ {p} # {}
             => /\ sup'[p].pc \in {"start", "stop", "sleep"}
                /\ s \notin sup'[p].new_streams
                /\ UNCHANGED <<workers, sidecar>>]_vars

\* C26: in every cycle of monitor_loop the streams to start and the streams
\* to stop are disjoint, and so are the streams the cycle has called
\* start_transcoder for and those it has called stop_transcoder for.
C26_StartStopDisjoint ==
    \A p \in Supervisors :
        /\ sup[p].new_streams \cap sup[p].stopped_streams = {}
        /\ obs[p].toStart \cap obs[p].toStop = {}
        /\ obs[p].starts \cap obs[p].stops = {}

\* a cycle that made a start call and a stop call has ended
C26_Witness ==
    \E p \in Supervisors :
        /\ sup[p].pc = "sleep"
        /\ obs[p].starts # {}
        /\ obs[p].stops # {}
        /\ obs[p].starts = obs[p].toStart
        /\ obs[p].stops = obs[p].toStop

\* the positions of a monitor_loop cycle that follow cleanup_stale_locks
AfterCleanup ==
    {"poll", "start", "acq_open", "acq_flock", "acq_write", "launch", "sidecar",
     "release", "stop", "sleep"}

\* the lock file of s is the one p has just opened and not yet written
BeingAcquired(p, s) ==
    sup[p].stream_name = s /\ sup[p].pc \in {"acq_flock", "acq_write"}

\* C27: in every cycle of monitor_loop the cleanup pass has ended before
\* the poll, the scan and the start and stop calls: at each of these
\* positions no listed file is left to examine and every lock file on disk,
\* other than one the supervisor is just acquiring, records a live process.
C27_CleanupFirst ==
    \A p \in Supervisors :
        sup[p].pc \in AfterCleanup =>
            /\ sup[p].glob = {}
            /\ \A s \in AllStreams :
                  lockFile[s] # NoFile /\ ~BeingAcquired(p, s) =>
                      IsInt(lockFile[s].content) /\ pid_exists(lockFile[s].content)

\* the lock of a stream is being acquired in the first cycle, whose cleanup
\* pass reclaimed the stale lock file of that stream
C27_Witness ==
    \E p \in Supervisors :
        /\ sup[p].pc = "acq_write"
        /\ sup[p].cycle = 0
        /\ sup[p].stream_name \in obs[p].stale_seen

C29_PublishedNames ==
    \A p \in Supervisors :
        obs[p].response.kind = "ok" =>
            /\ \A e \in obs[p].response.doc :
                  e.name # NoName /\ e.publishing => e.name \in sup[p].current_streams
            /\ \A s \in sup[p].current_streams :
                  \E e \in obs[p].response.doc :
                      e.name = s /\ e.name # NoName /\ e.publishing

\* the document had an entry without a name element, an entry without a
\* publishing element and an entry with both
C29_Witness ==
    \E p \in Supervisors :
        /\ obs[p].response.kind = "ok"
        /\ \E e \in obs[p].response.doc : e.name = NoName
        /\ \E e \in obs[p].response.doc : e.name # NoName /\ ~e.publishing
        /\ \E e \in obs[p].response.doc : e.name # NoName /\ e.publishing
        /\ sup[p].current_streams # {}
        /\ sup[p].current_streams # Published

\* C30: once start_transcoder(s) has returned Started, the sidecar of s
\* holds the pid of the worker the call launched and the lock file of s
\* holds the pid of the supervisor; and whenever a sidecar exists while a
\* worker of s runs, the pid in the sidecar is the pid of that worker.
C30_PidFiles ==
    /\ \A p \in Supervisors :
          sup[p].pc \in {"start", "stop", "sleep"} /\ obs[p].log # <<>> =>
              LET last == obs[p].log[Len(obs[p].log)]
              IN last.res = "Started" /\ last.stream \in AllStreams =>
                    /\ lockFile[last.stream] # NoFile
                    /\ lockFile[last.stream].content = getpid(p)
                    /\ \E w \in WorkersOf(last.stream) : w.pid = sidecar[last.stream]
    /\ \A s \in AllStreams :
          sidecar[s] # NoPid => \A w \in WorkersOf(s) : w.pid = sidecar[s]

\* C31: a start_transcoder call that returned failure launched no worker:
\* when the call has returned LaunchFailed, no process that matches its
\* stream is in the process table (none matched when the call began, and
\* no other supervisor runs).
C31_FailureLaunchedNothing ==
    \A p \in Supervisors :
        \A i \in 1..Len(obs[p].log) :
            LET rec == obs[p].log[i]
            IN rec.stream \in AllStreams /\ rec.res = "LaunchFailed" => rec.found = 0

\* C32: when acquire_stream_lock(s) returns None because the lock is held,
\* the lock file of s still holds the pid its holder has written into it.
C32_BusyLeavesFile ==
    [][\A p \in Supervisors :
          LET s == sup[p].stream_name
          IN /\ sup[p].pc = "acq_flock"
             /\ sup'[p].pc \in {"start", "stop", "sleep"}
             => \A q \in Holders(s) \ {p} :
                   /\ sup[q].pc \in {"launch", "sidecar", "release"}
                   /\ sup[q].lock_fd.ino = sup[p].lock_fd.ino
                   => /\ lockFile'[s] # NoFile
                      /\ lockFile'[s].content = getpid(q)]_vars

\* C33: a cleanup_stale_locks step never removes the lock file of a stream
\* while a process holds the flock on that file.
C33_CleanupSparesHeldLock ==
    [][\A p \in Supervisors : \A s \in AllStreams :
          /\ sup[p].pc = "cleanup_file"
          /\ sup'[p] # sup[p]
          /\ lockFile[s] # NoFile
          /\ lockFile'[s] = NoFile
          => ~FlockHeld(s, lockFile[s].ino)]_vars

\* C34: is_stream_transcoding(s) answers running whenever a live worker
\* of s is in the process table, whatever else is in the table: the scan of
\* monitor_loop puts every such name of its list into active_transcoders,
\* and start_transcoder(s) does not go on to the lock when s has a worker.
C34_ScanSurvivesErrors ==
    [][\A p \in Supervisors :
          /\ /\ sup[p].pc = "poll"
             /\ sup'[p].pc \in {"start", "stop", "sleep"}
             => \A s \in Range(HardcodedStreams) :
                   WorkersOf(s) # {} => s \in sup'[p].active_transcoders
          /\ \A s \in AllStreams :
                StartCall(p, s) /\ WorkersOf(s) # {} => sup'[p].pc # "acq_open"]_vars

\* C35: after a stop_transcoder(s) call that returned True no worker of s
\* is left in the process table, however many there were before the call.
C35_StopLeavesNoWorker ==
    [][\A p \in Supervisors : \A s \in AllStreams :
          StoppedBy(p, s) /\ sup'[p] # sup[p] => \A w \in workers' : w.stream # s]_vars

\* C36: a stop_transcoder(s) call, in a reconciliation cycle or at shutdown,
\* terminates or signals only workers of s; no worker of another stream t,
\* not even one whose name starts with s, is touched by it.
C36_StopOnlyOwnWorkers ==
    [][\A p \in Supervisors : \A s \in AllStreams :
          StopCall(p, s) /\ sup'[p] # sup[p]
          => \A w \in workers \ workers' : w.stream = s]_vars

\* C37: in a monitor_loop cycle whose poll failed no start_transcoder call is
\* made, and stop_transcoder is called for every stream of the
\* active_transcoders set the scan computed: while the stop calls run, the
\* streams stopped so far and those still to stop make up that set, and at
\* the sleep every one of them has been stopped.
C37_FailedPollStopsAll ==
    \A p \in Supervisors :
        obs[p].poll_failed
            => /\ obs[p].starts = {}
               /\ obs[p].toStart = {}
               /\ sup[p].pc = "stop"
                  => obs[p].stops \cup sup[p].stopped_streams = sup[p].active_transcoders
               /\ sup[p].pc = "sleep" => obs[p].stops = sup[p].active_transcoders

C37_Witness ==
    \E p \in Supervisors :
        /\ obs[p].poll_failed
        /\ sup[p].pc = "sleep"
        /\ obs[p].stops # {}
        /\ obs[p].stops = sup[p].active_transcoders
        /\ obs[p].last_stop.res = "Stopped"

\* a step of the AutoTranscoder creates process w
AutoLaunched(w) ==
    /\ w \in workers'
    /\ w.parent = "auto"
    /\ \A v \in workers : v.pid # w.pid

\* C38: the handle map of AutoTranscoder follows its workers: a step that
\* adds the entry of s has created the process of s the entry names (so a
\* failed launch adds nothing), a process is created only for a stream that
\* was no key of active_streams and is entered under it, and a step that
\* removes the entry of s leaves the process the entry named out of the
\* process table.
C38_HandleMapConsistent ==
    [][/\ \A s \in Published :
             auto.active_streams[s] = NoPid /\ auto'.active_streams[s] # NoPid
                => \E w \in workers' :
                      AutoLaunched(w) /\ w.stream = s /\ w.pid = auto'.active_streams[s]
       /\ \A w \in workers' :
             AutoLaunched(w)
                => /\ auto.active_streams[w.stream] = NoPid
                   /\ auto'.active_streams[w.stream] = w.pid
       /\ \A s \in Published :
             auto.active_streams[s] # NoPid /\ auto'.active_streams[s] = NoPid
                => \A w \in workers' : w.pid # auto.active_streams[s]]_vars

\* nobody interrupts the AutoTranscoder
NoAutoOperator ==
    ~auto.interrupted

\* every poll of the AutoTranscoder returns s
AutoStaysDesired(s) ==
    auto.pc \in {"start", "stop", "sleep"} => s \in auto.current_streams

\* the entry of s is in active_streams and its process has left the table
AutoWorkerDied(s) ==
    auto.active_streams[s] # NoPid /\ AutoProcess(s) = {}

\* C39: when the worker of a stream has exited on its own, and the stream
\* stays in the polled set and the AutoTranscoder is left running, a worker
\* of the stream is running again later on.
C39_DeadWorkerReplaced ==
    \A s \in Published :
        [](NoAutoOperator /\ AutoStaysDesired(s))
            => [](AutoWorkerDied(s) => <>(WorkersOf(s) # {}))

====
